---- MODULE Spec2Model ----
(***************************************************************************)
(* A model of the <vt-playground> custom element of                        *)
(* src/src/vt-playground.ts: the synchronisation of the `code` property    *)
(* with the editor document (update / firstUpdated / updateListener), the  *)
(* run() method with its two suspension points, and the rendering of the   *)
(* stored result (render / renderLogs / printLog).                          *)
(*                                                                         *)
(* The editor document is modelled through the interface the source uses: *)
(* a buffer of text read with state.doc.toString(), replaced with         *)
(* view.dispatch({changes}), and an update listener that the editor calls  *)
(* synchronously for every transaction that changes the document.          *)
(* Reactive properties follow Lit: assigning a different value requests an *)
(* update, updates are batched, and a pending update runs before the next  *)
(* task (user input, a settled fetch) is handled.                          *)
(***************************************************************************)
EXTENDS Integers, Sequences, FiniteSets, TLC

\* ------------------------------------------------------------------ bounds
\* Number of events the environment (host page, user) raises in one run.
MaxEvents == 3
\* Number of run() requests that may be awaiting their response at once.
MaxInFlight == 2
\* The rows of a table record.
MaxRows == 2

\* ------------------------------------------------------------ value domains
\* Source texts the host pushes and the user types.
Codes == {"", "a", "b"}
\* Source text served by the alias endpoint.
AliasCode == "v"
\* Values of the `val` attribute: none, or an identifier to resolve.
Vals == {"", "me.demo"}

None == <<>>
Some(x) == <<x>>

\* ------------------------------------------------------------ log records
\* A log argument is a string, a number, an array of rows (a row is the
\* sequence of its key/value cells, in the object's key order) or an array
\* of column names; s is the text the argument formats to.
Str(s) == [t |-> "str", s |-> s, rows |-> <<>>, names |-> <<>>]
Num(n) == [t |-> "num", s |-> ToString(n), rows |-> <<>>, names |-> <<>>]
Arr(r) == [t |-> "arr", s |-> "", rows |-> r, names |-> <<>>]
Names(n) == [t |-> "arr", s |-> "", rows |-> <<>>, names |-> n]
Cell(k, v) == [k |-> k, v |-> v]
Log(level, args) == [level |-> level, args |-> args]

SUPPORTED_LOG_LEVELS == {"table", "log", "info", "warn", "error"}

\* ------------------------------------------------------------------ state
VARIABLES
    val,            \* this.val
    disabled,       \* this.disabled
    readonly,       \* this.readonly
    code,           \* this.code
    isRunning,      \* this.isRunning
    res,            \* this.res: None (null) or Some([logs, duration])
    view,           \* TRUE once this.view has been created
    doc,            \* this.view.state.doc.toString()
    hasUpdated,     \* the first update has run (firstUpdated was called)
    updatePending,  \* an update has been requested and has not run yet
    changedCode,    \* the pending update's changedProperties.has('code')
    initPc,         \* position of firstUpdated()
    aliasBody,      \* the alias response whose json() firstUpdated awaits
    reqs,           \* the run() calls suspended at an await
    shown,          \* what the last committed render displays
    lastNote,       \* the last 'code-change' event dispatched, with its cause
    lastOutcome,    \* how the run() that settled last ended, and on what
    lastEvent,      \* the last push or edit applied to an element with a view
    ev,             \* the last push, edit or run() call since firstUpdated
                    \* assigned this.code, and what it has caused
    events          \* environment events raised so far

vars == <<val, disabled, readonly, code, isRunning, res, view, doc,
          hasUpdated, updatePending, changedCode, initPc, aliasBody, reqs,
          shown, lastNote, lastOutcome, lastEvent, ev, events>>

\* --------------------------------------------------------- printing logs
RECURSIVE JoinArgs(_)
\* log.args.map(arg => string or stringifyObject(arg)).join(' ')
JoinArgs(args) ==
    IF Len(args) = 0 THEN ""
    ELSE IF Len(args) = 1 THEN Head(args).s
    ELSE Head(args).s \o " " \o JoinArgs(Tail(args))

\* Object.keys(row)
Keys(row) == [i \in 1..Len(row) |-> row[i].k]

\* row[column] ?? ''
CellOf(row, column) ==
    IF \E i \in 1..Len(row) : row[i].k = column
    THEN row[CHOOSE i \in 1..Len(row) : row[i].k = column].v
    ELSE ""

\* Columns taken once, from the first row, for every row.
FirstRowColumns(log, row) ==
    IF Len(log.args) > 1 THEN log.args[2].names ELSE Keys(log.args[1].rows[1])

\* Columns that are the row's own keys even when a list is given.
OwnColumns(log, row) == Keys(row)

\* The columns one iteration of rows.forEach uses for its row: the row's
\* own keys, or the second argument when the record has one.
RowColumns(log, row) ==
    IF Len(log.args) > 1 THEN log.args[2].names ELSE Keys(row)

\* The cells one iteration of rows.forEach puts into the table for a row.
RowCells(log, row, idx) ==
    LET columns == RowColumns(log, row)
    IN  <<Cell("(idx)", ToString(idx))>>
            \o [i \in 1..Len(columns) |-> Cell(columns[i], CellOf(row, columns[i]))]

\* The table's columns, as the table library computes them when it prints:
\* every key that a row has a cell for gets a rank, a key's rank being at
\* least its position in each row that has it and above the ranks of the
\* keys before it there; the columns are the keys by rank, keys of equal
\* rank in the order they were first met. `cols` is the sequence of keys
\* met so far, each with its rank.
RankOf(cols, key) ==
    IF \E i \in 1..Len(cols) : cols[i].k = key
    THEN cols[CHOOSE i \in 1..Len(cols) : cols[i].k = key].rank
    ELSE 0

SetRank(cols, key, rank) ==
    IF \E i \in 1..Len(cols) : cols[i].k = key
    THEN [i \in 1..Len(cols) |->
             IF cols[i].k = key THEN [k |-> key, rank |-> rank] ELSE cols[i]]
    ELSE Append(cols, [k |-> key, rank |-> rank])

Max(a, b) == IF a >= b THEN a ELSE b

RECURSIVE AddColumns(_, _, _)
\* One row's cells: `idx` is the least rank the next key may take.
AddColumns(cols, cells, idx) ==
    IF Len(cells) = 0 THEN cols
    ELSE LET rank == Max(idx, RankOf(cols, Head(cells).k))
         IN  AddColumns(SetRank(cols, Head(cells).k, rank), Tail(cells), rank + 1)

RECURSIVE RankRows(_, _)
RankRows(cols, table) ==
    IF Len(table) = 0 THEN cols
    ELSE RankRows(AddColumns(cols, Head(table), 0), Tail(table))

\* The rows are gone through twice, and the keys then sorted by rank.
TableColumns(table) ==
    LET cols == RankRows(RankRows(<<>>, table), table)
        n == Len(cols)
        Before(a, b) == cols[a].rank < cols[b].rank \/ (cols[a].rank = cols[b].rank /\ a < b)
    IN  [i \in 1..n |->
            cols[CHOOSE j \in 1..n : Cardinality({a \in 1..n : Before(a, j)}) = i - 1].k]

\* table.toString(): a header line, then one line per row; a line is the
\* sequence of its column texts (padding and the rule under the header are
\* layout and are left out).
TableToString(table) ==
    LET cols == TableColumns(table)
    IN  <<cols>> \o [r \in 1..Len(table) |->
                        [c \in 1..Len(cols) |-> CellOf(table[r], cols[c])]]

Returned(text) == [threw |-> FALSE, error |-> "", text |-> text]
Thrown(msg) == [threw |-> TRUE, error |-> msg, text |-> <<>>]

\* function printLog(log)
printLog(log) ==
    IF log.level = "table"
    THEN IF Len(log.args) = 0 \/ log.args[1].t # "arr"
         THEN Thrown("Invalid table rows")
         ELSE LET rows == log.args[1].rows
              IN  IF Len(rows) > 0 /\ Len(log.args) > 1 /\ log.args[2].t # "arr"
                  THEN Thrown("Invalid table columns")
                  ELSE Returned(TableToString(
                           [i \in 1..Len(rows) |-> RowCells(log, rows[i], i - 1)]))
    ELSE Returned(<< <<JoinArgs(log.args)>> >>)

\* this.res.logs.filter(log => SUPPORTED_LOG_LEVELS.includes(log.level))
SupportedLogs(logs) == SelectSeq(logs, LAMBDA log : log.level \in SUPPORTED_LOG_LEVELS)

\* Playground.renderLogs(): `nothing` without a result; else the supported
\* records in order, each with its text; a printLog that throws ends the
\* whole map, and renderLogs with it.
renderLogs(r) ==
    IF r = None THEN [threw |-> FALSE, error |-> "", items |-> <<>>]
    ELSE LET logs == SupportedLogs(r[1].logs)
             printed == [i \in 1..Len(logs) |-> printLog(logs[i])]
         IN  IF \E i \in 1..Len(logs) : printed[i].threw
             THEN [threw |-> TRUE,
                   error |-> printed[CHOOSE i \in 1..Len(logs) :
                                 /\ printed[i].threw
                                 /\ \A j \in 1..(i - 1) : ~printed[j].threw].error,
                   items |-> <<>>]
             ELSE [threw |-> FALSE, error |-> "",
                   items |-> [i \in 1..Len(logs) |->
                                 [level |-> logs[i].level, text |-> printed[i].text]]]

\* Playground.render(): the result area is there only with a result, and
\* shows its duration and its logs.
render(r) ==
    IF r = None THEN [result |-> FALSE, duration |-> 0, logs |-> <<>>]
    ELSE [result |-> TRUE, duration |-> r[1].duration, logs |-> renderLogs(r).items]

\* ------------------------------------------------------- the environment
\* What the execution endpoint may answer. `valid` is FALSE for a body on
\* which resp.json() rejects; `text` is what resp.text() gives.
Body(text, valid, ok, error, logs, duration) ==
    [text |-> text, valid |-> valid, ok |-> ok, error |-> error,
     logs |-> logs, duration |-> duration]

LogsPlain == <<Log("log", <<Num(1)>>)>>
LogsMixed ==
    <<Log("debug", <<Str("d")>>),
      Log("table", <<Arr(<<<<Cell("a", "1"), Cell("b", "2")>>,
                           <<Cell("a", "3"), Cell("b", "4")>>>>)>>),
      Log("verbose", <<Str("v")>>),
      Log("warn", <<Str("w"), Num(2)>>)>>
LogsBadTable ==
    <<Log("info", <<Str("i")>>), Log("table", <<Num(5)>>), Log("error", <<Str("e")>>)>>

SuccessBodies ==
    {Body("{ok:true,1}", TRUE, TRUE, "", LogsPlain, 5),
     Body("{ok:true,2}", TRUE, TRUE, "", LogsMixed, 7),
     Body("{ok:true,3}", TRUE, TRUE, "", LogsBadTable, 9)}
FailureBody == Body("{ok:false}", TRUE, FALSE, "boom", <<>>, 0)
GarbageBody == Body("<html>", FALSE, FALSE, "", <<>>, 0)
Bodies == SuccessBodies \cup {FailureBody, GarbageBody}

NoBody == Body("", FALSE, FALSE, "", <<>>, 0)
ErrorPage == Body("Internal Server Error", FALSE, FALSE, "", <<>>, 0)
\* A response of the execution endpoint: its status, and its body.
Responses ==
    [ok : {TRUE}, body : Bodies] \cup [ok : {FALSE}, body : {ErrorPage, FailureBody}]

\* The value of a `code` that was assigned undefined.
Undefined == "<undefined>"
\* this.code after the non-ok branch of firstUpdated.
ErrorText == "// Error: 404 Not Found"
\* What the alias endpoint may answer: a body json() rejects, a JSON body
\* without a code member, a JSON body with one.
AliasBodies ==
    {[valid |-> FALSE, code |-> Undefined],
     [valid |-> TRUE, code |-> Undefined],
     [valid |-> TRUE, code |-> AliasCode]}
NoAliasBody == [valid |-> FALSE, code |-> Undefined]

NoNote == [code |-> "", cause |-> "none"]
\* How a run() ended: it returned, having read the success payload `body`,
\* or it threw an Error with a message.
NoOutcome == [kind |-> "none", error |-> "", logs |-> <<>>, duration |-> 0]
Returns(body) ==
    [kind |-> "returned", error |-> "", logs |-> body.logs, duration |-> body.duration]
Throws(msg) == [kind |-> "threw", error |-> msg, logs |-> <<>>, duration |-> 0]

\* The last event of the host or the user, and what came of it so far:
\* its kind; the text pushed or typed; how many times in a row the host
\* pushed that text; noop when it asks for nothing new (a push of the
\* text the document already holds, or of the text this.code holds with no
\* earlier change of it still to be processed; an edit that leaves the
\* text of this.code; a run() on a disabled element); the 'code-change'
\* events and the view.dispatch calls of update() since.
Event(kind, v, noop, notes) ==
    [kind |-> kind, v |-> v, pushes |-> IF kind = "push" THEN 1 ELSE 0,
     noop |-> noop, notes |-> notes, replaces |-> 0]
NoEvent == Event("none", "", FALSE, 0)

\* ------------------------------------------------------------------ Init
Init ==
    /\ val \in Vals
    /\ disabled \in BOOLEAN
    /\ readonly \in BOOLEAN
    /\ code \in {"", "a"}
    /\ isRunning = FALSE
    /\ res = None
    /\ view = FALSE
    /\ doc = ""
    /\ hasUpdated = FALSE
    /\ updatePending = TRUE
    /\ changedCode = (code # "")
    /\ initPc = "start"
    /\ aliasBody = NoAliasBody
    /\ reqs = <<>>
    /\ shown = render(None)
    /\ lastNote = NoNote
    /\ lastOutcome = NoOutcome
    /\ lastEvent = "none"
    /\ ev = NoEvent
    /\ events = 0

\* ------------------------------------------------- the editor document
\* The text that `insert: c` puts into the document (nothing for undefined).
Inserted(c) == IF c = Undefined THEN "" ELSE c

\* update.docChanged for the transaction that replaces all of `old` by the
\* insertion of c: the change is empty only when nothing is deleted and
\* nothing is inserted.
DocChanged(old, c) == ~(old = "" /\ Inserted(c) = "")

\* The 'code-change' event the update listener dispatches, with what caused
\* the transaction it reports.
Note(c, cause) == [code |-> c, cause |-> cause]

\* ------------------------------------------------------ Playground.update
\* update() without the comparison of lines 82-85: the document is replaced
\* whenever 'code' is among the changed properties.
SyncWithoutComparison ==
    IF view /\ changedCode
    THEN IF DocChanged(doc, code)
         THEN /\ doc' = Inserted(code)
              /\ code' = Inserted(code)
              /\ lastNote' = Note(Inserted(code), "replace")
              /\ updatePending' = (Inserted(code) # code)
              /\ changedCode' = (Inserted(code) # code)
              /\ ev' = [ev EXCEPT !.replaces = @ + 1, !.notes = @ + 1]
         ELSE /\ updatePending' = FALSE
              /\ changedCode' = FALSE
              /\ ev' = [ev EXCEPT !.replaces = @ + 1]
              /\ UNCHANGED <<doc, code, lastNote>>
    ELSE /\ updatePending' = FALSE
         /\ changedCode' = FALSE
         /\ UNCHANGED <<doc, code, lastNote, ev>>

\* Lines 81-94 of update(), with the update listener that view.dispatch
\* calls before it returns: the document is replaced when it differs from
\* this.code, and the listener then assigns this.code and dispatches
\* 'code-change'. An assignment that changes this.code requests an update.
SyncDocument ==
    IF view /\ changedCode /\ doc # code
    THEN IF DocChanged(doc, code)
         THEN /\ doc' = Inserted(code)
              /\ code' = Inserted(code)
              /\ lastNote' = Note(Inserted(code), "replace")
              /\ updatePending' = (Inserted(code) # code)
              /\ changedCode' = (Inserted(code) # code)
              /\ ev' = [ev EXCEPT !.replaces = @ + 1, !.notes = @ + 1]
         ELSE /\ updatePending' = FALSE
              /\ changedCode' = FALSE
              /\ ev' = [ev EXCEPT !.replaces = @ + 1]
              /\ UNCHANGED <<doc, code, lastNote>>
    ELSE /\ updatePending' = FALSE
         /\ changedCode' = FALSE
         /\ UNCHANGED <<doc, code, lastNote, ev>>

\* A requested update runs, after the first one: super.update() renders
\* (render -> renderLogs -> printLog) and marks the element updated; when
\* the render throws, the update ends there and lines 81-94 do not run.
PerformUpdate ==
    /\ updatePending
    /\ hasUpdated
    /\ IF renderLogs(res).threw
       THEN /\ updatePending' = FALSE
            /\ changedCode' = FALSE
            /\ UNCHANGED <<doc, code, lastNote, shown, ev>>
       ELSE /\ shown' = render(res)
            /\ SyncDocument
    /\ UNCHANGED <<val, disabled, readonly, isRunning, res, view, hasUpdated,
                   initPc, aliasBody, reqs, lastOutcome, events,
                   lastEvent>>

\* ------------------------------------------------ Playground.firstUpdated
\* new EditorView({doc: this.code, ...}) once this.code is c.
CreateView(c) ==
    /\ view' = TRUE
    /\ doc' = Inserted(c)
    /\ initPc' = "ready"

\* The first update: there is no view yet, so update() only renders, and
\* firstUpdated() then runs up to its first await, or to its end when no
\* val is given.
FirstUpdate ==
    /\ updatePending
    /\ ~hasUpdated
    /\ hasUpdated' = TRUE
    /\ shown' = render(res)
    /\ updatePending' = FALSE
    /\ changedCode' = FALSE
    /\ IF val # ""
       THEN /\ initPc' = "fetch"
            /\ UNCHANGED <<view, doc>>
       ELSE CreateView(code)
    /\ UNCHANGED <<val, disabled, readonly, code, isRunning, res, aliasBody,
                   reqs, lastNote, lastOutcome, events,
                   lastEvent, ev>>

\* The alias fetch of line 99 settles: it rejects and firstUpdated throws,
\* or it resolves; a non-ok response assigns the error text, and either way
\* the function goes on to await resp.json().
AliasFetchSettles ==
    /\ initPc = "fetch"
    /\ ~updatePending
    /\ \/ /\ initPc' = "threw"
          /\ UNCHANGED <<code, updatePending, changedCode, aliasBody>>
       \/ \E ok \in BOOLEAN, body \in AliasBodies :
             /\ initPc' = "json"
             /\ aliasBody' = body
             /\ code' = IF ok THEN code ELSE ErrorText
             /\ updatePending' = (code' # code)
             /\ changedCode' = (code' # code)
    /\ UNCHANGED <<val, disabled, readonly, isRunning, res, view, doc,
                   hasUpdated, reqs, shown, lastNote, lastOutcome, events,
                   lastEvent, ev>>

\* Lines 103-135 with an initial `code` that wins over the alias: the code
\* member is assigned only when this.code is empty.
AliasBodyKeepsCode ==
    /\ initPc = "json"
    /\ ~updatePending
    /\ IF ~aliasBody.valid
       THEN /\ initPc' = "threw"
            /\ UNCHANGED <<code, updatePending, changedCode, view, doc, ev>>
       ELSE /\ code' = IF code = "" THEN aliasBody.code ELSE code
            /\ updatePending' = (code' # code)
            /\ changedCode' = (code' # code)
            /\ ev' = NoEvent
            /\ CreateView(code')
    /\ aliasBody' = NoAliasBody
    /\ UNCHANGED <<val, disabled, readonly, isRunning, res, hasUpdated, reqs,
                   shown, lastNote, lastOutcome, events,
                   lastEvent>>

\* resp.json() of line 103 settles: it rejects and firstUpdated throws, or
\* its code member is assigned and the view is created (lines 104-135).
AliasBodySettles ==
    /\ initPc = "json"
    /\ ~updatePending
    /\ IF ~aliasBody.valid
       THEN /\ initPc' = "threw"
            /\ UNCHANGED <<code, updatePending, changedCode, view, doc, ev>>
       ELSE /\ code' = aliasBody.code
            /\ updatePending' = (code' # code)
            /\ changedCode' = (code' # code)
            /\ ev' = NoEvent
            /\ CreateView(aliasBody.code)
    /\ aliasBody' = NoAliasBody
    /\ UNCHANGED <<val, disabled, readonly, isRunning, res, hasUpdated, reqs,
                   shown, lastNote, lastOutcome, events,
                   lastEvent>>

\* ------------------------------------------------------- the two sources
\* The host assigns the `code` property; an assignment of a different
\* value requests an update with 'code' among the changed properties.
ExternalPush(v) ==
    /\ events < MaxEvents
    /\ events' = events + 1
    /\ lastEvent' = IF view THEN "push" ELSE lastEvent
    /\ ev' = IF ev.kind = "push" /\ ev.v = v
             THEN [ev EXCEPT !.pushes = @ + 1]
             ELSE Event("push", v, (v = code /\ ~changedCode) \/ (view /\ v = doc), 0)
    /\ code' = v
    /\ updatePending' = (updatePending \/ v # code)
    /\ changedCode' = (changedCode \/ v # code)
    /\ UNCHANGED <<val, disabled, readonly, isRunning, res, view, doc,
                   hasUpdated, initPc, aliasBody, reqs, shown, lastNote,
                   lastOutcome>>

\* A listener that dispatches 'code-change' without assigning this.code.
updateListenerNotifiesOnly(v) ==
    /\ lastNote' = Note(v, "edit")
    /\ UNCHANGED <<code, updatePending, changedCode>>

\* The update listener of lines 109-118, for a transaction of the user that
\* leaves the document as v.
updateListener(v) ==
    /\ code' = v
    /\ lastNote' = Note(v, "edit")
    /\ updatePending' = (v # code)
    /\ changedCode' = (v # code)

\* The user changes the document in the editor, which an editor that is
\* not editable (lines 127-129) does not let them do: a transaction that
\* changes the document (update.docChanged) and leaves it as v.
LocalEdit(v) ==
    /\ view
    /\ ~readonly
    /\ ~updatePending
    /\ DocChanged(doc, v)
    /\ events < MaxEvents
    /\ events' = events + 1
    /\ lastEvent' = "edit"
    /\ ev' = Event("edit", v, v = code, 1)
    /\ doc' = v
    /\ updateListener(v)
    /\ UNCHANGED <<val, disabled, readonly, isRunning, res, view, hasUpdated,
                   initPc, aliasBody, reqs, shown, lastOutcome>>

\* The host assigns the `disabled` property (lines 57-58), which requests
\* an update.
SetDisabled(b) ==
    /\ b # disabled
    /\ events < MaxEvents
    /\ events' = events + 1
    /\ disabled' = b
    /\ updatePending' = TRUE
    /\ UNCHANGED <<val, readonly, code, isRunning, res, view, doc, hasUpdated,
                   changedCode, initPc, aliasBody, reqs, shown, lastNote,
                   lastOutcome, lastEvent, ev>>

\* --------------------------------------------------------- Playground.run
Remove(seq, i) == [j \in 1..(Len(seq) - 1) |-> IF j < i THEN seq[j] ELSE seq[j + 1]]

\* A run() suspended at `await fetch(...)`.
AtFetch == [pc |-> "fetch", ok |-> FALSE, body |-> NoBody]
\* A run() suspended at `await resp.text()` or `await resp.json()`.
AtBody(resp) == [pc |-> IF resp.ok THEN "json" ELSE "text", ok |-> resp.ok, body |-> resp.body]

\* The requests to the execution endpoint that have not been answered.
Outstanding == {i \in 1..Len(reqs) : reqs[i].pc = "fetch"}

\* A result that keeps the log records of the result before it.
MergedResult(body) ==
    Some([logs |-> (IF res = None THEN <<>> ELSE res[1].logs) \o body.logs,
          duration |-> body.duration])

\* this.res = res.json (line 161)
StoredResult(body) == Some([logs |-> body.logs, duration |-> body.duration])

\* run() without the test of this.disabled of lines 139-142.
runUnguarded ==
    /\ isRunning' = TRUE
    /\ updatePending' = TRUE
    /\ reqs' = Append(reqs, AtFetch)

\* run() up to its first await (lines 139-153): nothing when disabled; else
\* an update is requested, isRunning is set and the request is sent.
run ==
    IF disabled
    THEN UNCHANGED <<isRunning, reqs, updatePending>>
    ELSE /\ isRunning' = TRUE
         /\ updatePending' = TRUE
         /\ reqs' = Append(reqs, AtFetch)

\* The Run button of the rendered element is clicked, or the host calls
\* run() on it.
Run ==
    /\ hasUpdated
    /\ events < MaxEvents
    /\ Len(reqs) < MaxInFlight
    /\ events' = events + 1
    /\ ev' = Event("run", "", disabled, 0)
    /\ run
    /\ UNCHANGED <<val, disabled, readonly, code, res, view, doc, hasUpdated,
                   changedCode, initPc, aliasBody, shown, lastNote, lastOutcome,
                   lastEvent>>

\* The fetch of run i rejects (no response): line 145 throws, and nothing
\* after it runs.
FetchRejects(i) ==
    /\ i \in Outstanding
    /\ ~updatePending
    /\ reqs' = Remove(reqs, i)
    /\ lastOutcome' = Throws("Failed to fetch")
    /\ UNCHANGED <<val, disabled, readonly, code, isRunning, res, view, doc,
                   hasUpdated, updatePending, changedCode, initPc, aliasBody,
                   shown, lastNote, events,
                   lastEvent, ev>>

\* The fetch of run i resolves with a response (lines 154-159): isRunning
\* is reset, and run() awaits the body, as text or as JSON.
FetchResolves(i, resp) ==
    /\ i \in Outstanding
    /\ ~updatePending
    /\ isRunning' = FALSE
    /\ updatePending' = isRunning
    /\ reqs' = [reqs EXCEPT ![i] = AtBody(resp)]
    /\ UNCHANGED <<val, disabled, readonly, code, res, view, doc, hasUpdated,
                   changedCode, initPc, aliasBody, shown, lastNote,
                   lastOutcome, events,
                   lastEvent, ev>>

\* The body of run i's response has been read (lines 156-167).
BodySettles(i) ==
    /\ i \in 1..Len(reqs)
    /\ reqs[i].pc \in {"text", "json"}
    /\ ~updatePending
    /\ reqs' = Remove(reqs, i)
    /\ IF reqs[i].pc = "text"
       THEN /\ lastOutcome' = Throws(reqs[i].body.text)
            /\ UNCHANGED <<res, updatePending>>
       ELSE IF ~reqs[i].body.valid
       THEN /\ lastOutcome' = Throws("Unexpected token")
            /\ UNCHANGED <<res, updatePending>>
       ELSE IF reqs[i].body.ok
       THEN /\ res' = StoredResult(reqs[i].body)
            /\ updatePending' = TRUE
            /\ lastOutcome' = Returns(reqs[i].body)
       ELSE /\ lastOutcome' = Throws(reqs[i].body.error)
            /\ UNCHANGED <<res, updatePending>>
    /\ UNCHANGED <<val, disabled, readonly, code, isRunning, view, doc,
                   hasUpdated, changedCode, initPc, aliasBody, shown,
                   lastNote, events,
                   lastEvent, ev>>

\* ------------------------------------------------------------------- Next
Next ==
    \/ FirstUpdate
    \/ PerformUpdate
    \/ AliasFetchSettles
    \/ AliasBodySettles
    \/ \E v \in Codes : ExternalPush(v)
    \/ \E v \in Codes : LocalEdit(v)
    \/ \E b \in BOOLEAN : SetDisabled(b)
    \/ Run
    \/ \E i \in 1..MaxInFlight : FetchRejects(i)
    \/ \E i \in 1..MaxInFlight, resp \in Responses : FetchResolves(i, resp)
    \/ \E i \in 1..MaxInFlight : BodySettles(i)

Spec == Init /\ [][Next]_vars

\* ------------------------------------------------------ printing tables
\* The rows of console.table calls: objects whose keys differ from row to
\* row, in number and in order.
TableRowPool ==
    {<<Cell("a", "1"), Cell("b", "2")>>,
     <<Cell("a", "3")>>,
     <<Cell("b", "4"), Cell("c", "5")>>,
     <<Cell("c", "6"), Cell("a", "7")>>}
TableRows == UNION {[1..n -> TableRowPool] : n \in 0..MaxRows}

\* A second argument: a list of column names, or something that is no array.
ColumnLists == {Names(<<"a">>), Names(<<"b", "a">>), Names(<<"a", "d">>)}
ColumnArgs == ColumnLists \cup {Num(5), Str("a")}

\* The table records a result may hold.
TableLogs ==
    {Log("table", <<Arr(rows)>>) : rows \in TableRows}
        \cup {Log("table", <<Arr(rows), cols>>) : rows \in TableRows, cols \in ColumnArgs}
        \cup {Log("table", <<>>), Log("table", <<Num(5)>>),
              Log("table", <<Str("x"), Names(<<"a">>)>>)}

\* The element right after a run() stored a result that holds one table
\* record (an element without val, enabled, with an empty editor; the update
\* that the assignment of line 161 requested has not run yet).
TableInit ==
    /\ \E log \in TableLogs :
          /\ res = StoredResult(Body("{ok:true}", TRUE, TRUE, "", <<log>>, 5))
          /\ lastOutcome = Returns(Body("{ok:true}", TRUE, TRUE, "", <<log>>, 5))
    /\ val = ""
    /\ disabled = FALSE
    /\ readonly = FALSE
    /\ code = ""
    /\ isRunning = FALSE
    /\ view = TRUE
    /\ doc = ""
    /\ hasUpdated = TRUE
    /\ updatePending = TRUE
    /\ changedCode = FALSE
    /\ initPc = "ready"
    /\ aliasBody = NoAliasBody
    /\ reqs = <<>>
    /\ shown = render(None)
    /\ lastNote = NoNote
    /\ lastEvent = "none"
    /\ ev = Event("run", "", FALSE, 0)
    /\ events = 1

\* The update renders the result: renderLogs() calls printLog on the record.
TableNext == PerformUpdate

TableSpec == TableInit /\ [][TableNext]_vars

\* ================================================================ claims
\* Every event has been fully processed: the view exists and no requested
\* update is still to run (the update listener runs inside its action).
Settled == view /\ ~updatePending

\* C1: once every ExternalPush and LocalEdit applied to an element with a
\* view has been fully processed, this.code and the document's content are
\* the same string.
C1_SettledCodeEqualsDoc ==
    (Settled /\ lastEvent \in {"push", "edit"}) => code = doc

\* C2: 'code-change' is never dispatched for the document replace that
\* update() issues for an ExternalPush; only edits made in the editor are
\* reported.
C2_NoNoteForReplace == lastNote.cause # "replace"

\* C3: while a run is pending (isRunning), no result is stored.
C3_RunningHasNoResult == isRunning => res = None

\* C4: every run returns to idle whatever its outcome: once no request is
\* awaiting its answer any more, isRunning is false again.
C4_IdleOnceAnswered == (Outstanding = {}) => ~isRunning

\* C5: at most one execution request is outstanding at any time.
C5_OneRequestOutstanding == Cardinality(Outstanding) <= 1

\* C6: whenever a request is still outstanding, isRunning is true.
C6_RunningWhileOutstanding == (Outstanding # {}) => isRunning

\* The run() that settled last failed with an ok:false payload or with a
\* non-success status, and threw the failure message.
RunFailed ==
    /\ lastOutcome.kind = "threw"
    /\ lastOutcome.error \in {FailureBody.error, FailureBody.text, ErrorPage.text}

\* C7: after a run that ended in failure no result is stored, whatever the
\* runs before it.
C7_FailedRunLeavesNoResult == RunFailed => res = None

\* C8: after a run that read a success payload, the stored result is exactly
\* that payload's logs and duration, with nothing of an earlier result.
C8_ResultReplacedWholesale ==
    lastOutcome.kind = "returned"
        => res = Some([logs |-> lastOutcome.logs, duration |-> lastOutcome.duration])

\* A second successful run has just stored its result over the different
\* result of an earlier run, which the page still shows.
C8_Witness ==
    /\ lastOutcome.kind = "returned"
    /\ res # None
    /\ shown.result
    /\ shown.duration # res[1].duration

RecognizedLevels == {"log", "info", "warn", "error", "debug", "table"}
Recognized(logs) == SelectSeq(logs, LAMBDA log : log.level \in RecognizedLevels)

\* C9: the displayed entries are exactly the received records of a
\* recognized level (log, info, warn, error, debug, table), in order.
C9_DisplaysRecognizedLevels ==
    (res # None /\ ~renderLogs(res).threw)
        => [i \in 1..Len(renderLogs(res).items) |-> renderLogs(res).items[i].level]
               = [i \in 1..Len(Recognized(res[1].logs)) |-> Recognized(res[1].logs)[i].level]

\* C10: a record whose formatting fails does not keep the other records of
\* the result from being rendered: every record that formats has its text
\* in the rendered logs.
C10_FailureIsolatedPerRecord ==
    res # None =>
        \A i \in 1..Len(SupportedLogs(res[1].logs)) :
            LET log == SupportedLogs(res[1].logs)[i]
            IN  ~printLog(log).threw =>
                    \E j \in 1..Len(renderLogs(res).items) :
                        /\ renderLogs(res).items[j].level = log.level
                        /\ renderLogs(res).items[j].text = printLog(log).text

\* C11: a push of the text that this.code or the document already holds
\* issues no document replace, and the same text pushed twice or more in a
\* row issues at most one replace in all.
C11_PushIsIdempotent ==
    ev.kind = "push" =>
        /\ ev.noop => ev.replaces = 0
        /\ ev.pushes >= 2 => ev.replaces <= 1

\* The same text was pushed twice in a row into an element with a view,
\* everything has been processed, and the document was replaced once.
C11_Witness ==
    /\ ev.kind = "push"
    /\ ev.pushes = 2
    /\ ev.replaces = 1
    /\ Settled
    /\ doc = ev.v

\* C12: an edit that leaves the document with the text this.code already
\* holds dispatches no 'code-change' event.
C12_NoNoteForEqualContent ==
    (ev.kind = "edit" /\ ev.noop) => ev.notes = 0

\* C13: on a read-only element no 'code-change' event is ever dispatched,
\* and a push, once processed, has set this.code and the document to the
\* text pushed.
C13_ReadOnlyNeverNotifies ==
    readonly =>
        /\ lastNote.cause = "none"
        /\ (Settled /\ ev.kind = "push" /\ lastEvent = "push")
               => (code = ev.v /\ doc = ev.v)

\* C14: run() on a disabled element is a no-op: it sends no request and
\* leaves isRunning, the stored result and this.code (and the document) as
\* they are, whatever the state it is called in.
C14_DisabledRunIsNoOp ==
    [][(Run /\ disabled) => UNCHANGED <<reqs, isRunning, res, code, doc>>]_vars

\* run() has been called on an element that was disabled after a run had
\* stored a result.
C14_Witness ==
    /\ ev.kind = "run"
    /\ ev.noop
    /\ disabled
    /\ res # None

\* C15: initialization takes the initial text from one source and creates
\* the document with it: with a val, this.code and the document are the
\* code the alias fetch returned, whatever the initial `code` and whatever
\* was pushed while the fetch was pending; without a val, they are the
\* `code` property as it stood.
C15_InitialCodeBySource ==
    [][(~view /\ view') =>
          /\ (val # "" /\ aliasBody.code # Undefined)
                 => (code' = aliasBody.code /\ doc' = aliasBody.code)
          /\ val = "" => (code' = code /\ doc' = code)]_vars

\* The view has just been created from the code of the alias, after the
\* host acted on the element while the fetch was pending: no update has run
\* since the alias code was assigned.
C15_Witness ==
    /\ val # ""
    /\ view
    /\ events > 0
    /\ ev = NoEvent
    /\ updatePending /\ changedCode
    /\ reqs = <<>>
    /\ code = AliasCode
    /\ doc = AliasCode

\* ------------------------------------------------------ claims on tables
\* The table record of the stored result, and what it is called with.
TableLog == res[1].logs[1]
HasRows(log) == Len(log.args) >= 1 /\ log.args[1].t = "arr"
NoColumnList(log) == HasRows(log) /\ Len(log.args) = 1
HasColumnList(log) == HasRows(log) /\ Len(log.args) = 2 /\ log.args[2].t = "arr"
\* The update has rendered the record's text.
Rendered(log) ==
    ~updatePending => shown.logs = <<[level |-> "table", text |-> printLog(log).text]>>

C17_ListedColumnsOnly ==
    (res # None /\ HasColumnList(TableLog)) =>
        LET rows == TableLog.args[1].rows
            names == TableLog.args[2].names
            text == printLog(TableLog).text
        IN  /\ ~printLog(TableLog).threw
            /\ Len(text) = 1 + Len(rows)
            /\ Len(rows) > 0 => text[1] = <<"(idx)">> \o names
            /\ \A r \in 1..Len(rows) :
                   text[r + 1] = <<ToString(r - 1)>>
                                    \o [c \in 1..Len(names) |-> CellOf(rows[r], names[c])]
            /\ Rendered(TableLog)

\* A rendered table with a column list, a row that has a key the list lacks
\* and a row that lacks a listed column.
C17_Witness ==
    /\ res # None
    /\ HasColumnList(TableLog)
    /\ \E r \in 1..Len(TableLog.args[1].rows) :
           \E i \in 1..Len(TableLog.args[1].rows[r]) :
               \A c \in 1..Len(TableLog.args[2].names) :
                   TableLog.args[2].names[c] # TableLog.args[1].rows[r][i].k
    /\ \E r \in 1..Len(TableLog.args[1].rows) :
           \E c \in 1..Len(TableLog.args[2].names) :
               CellOf(TableLog.args[1].rows[r], TableLog.args[2].names[c]) = ""
    /\ ~updatePending
    /\ shown.result
    /\ Len(shown.logs) = 1
    /\ Len(shown.logs[1].text) = 3

\* C18: when the result is rendered, printLog throws, and renderLogs with
\* it, for every table record whose first argument is no array and for
\* every one whose second argument is there but is no array, whatever the
\* number of rows.
C18_MalformedTableThrows ==
    (res # None /\ ~updatePending /\ (~HasRows(TableLog)
                      \/ (Len(TableLog.args) > 1 /\ TableLog.args[2].t # "arr"))) =>
        /\ printLog(TableLog).threw
        /\ renderLogs(res).threw

\* C19: an edit in the editor that leaves the document as v sets this.code
\* to v and dispatches one 'code-change' carrying v; the update that the
\* assignment requests dispatches no replace and leaves the document as v.
C19_EditDoesNotLoopBack ==
    ev.kind = "edit" =>
        /\ code = ev.v
        /\ doc = ev.v
        /\ ev.notes = 1
        /\ ev.replaces = 0
        /\ lastNote = Note(ev.v, "edit")

\* The user typed a new text, and the update the edit requested has run.
C19_Witness ==
    /\ ev.kind = "edit"
    /\ ~ev.noop
    /\ ev.v # ""
    /\ Settled
    /\ ev.notes = 1
    /\ doc = ev.v

\* C20: when the alias response is not ok, firstUpdated still ends with
\* the view created, and this.code and the document are the error text of
\* the non-ok branch; this.code holds that text while resp.json() is
\* awaited, and the step that ends the wait is the one that must keep it.
C20_ErrorTextIsInitialCode ==
    [][(initPc = "json" /\ code = ErrorText /\ initPc' # "json")
          => (view' /\ code' = ErrorText /\ doc' = ErrorText)]_vars

====
